---- MODULE Spec2Model ----
(***************************************************************************)
(* Emotional Tone Drift Analyzer (src/src/App.jsx).                        *)
(*                                                                         *)
(* The App component's state (entries, analysis, loading, error), its      *)
(* handlers (addEntry, updateEntry, removeEntry, analyze), the response    *)
(* interpretation inside analyze, the presentation tables and the          *)
(* EmotionChart projection.                                                *)
(*                                                                         *)
(* Strings are sequences of characters; a quoted JSON string literal such  *)
(* as "a" is one unit of such a sequence.  Coordinates are exact rationals *)
(* [num, den] where the code computes IEEE doubles.  React re-renders      *)
(* after every discrete event, so each handler reads the current state.    *)
(***************************************************************************)
EXTENDS Integers, Sequences, FiniteSets, TLC

VARIABLES
  entries,       \* useState: the journal entry list, records [id, date, text]
  analysis,      \* useState: the parsed AnalysisResult, or NullAnalysis
  loading,       \* useState: BOOLEAN
  error,         \* useState: a message, or NULL
  now,           \* the value Date.now() returns at this instant
  inflight,      \* chat-completion requests issued and not yet settled
  event,         \* the handler that ran last, [name, arg]
  raw,           \* response text handed to the interpreter
  match,         \* what the interpreter made of raw
  chartEntries,  \* the entries prop of EmotionChart (a sequence of scores)
  chart          \* what EmotionChart rendered

vars == <<entries, analysis, loading, error, now, inflight, event,
          raw, match, chartEntries, chart>>

appVars == <<entries, analysis, loading, error, now, inflight, event>>
interpVars == <<raw, match>>
chartVars == <<chartEntries, chart>>

----------------------------------------------------------------------------
(* Bounds of the model. *)

MaxEntries == 3      \* entries the list may hold (the code sets no limit)
MaxTicks == 1        \* milliseconds the clock may advance
MaxRaw == 6          \* length of a response text in the interpreter check
MaxPoints == 3       \* scored entries handed to the chart

----------------------------------------------------------------------------
(* Values. *)

NULL == "<null>"
NullAnalysis == [type |-> "null"]

Whitespace == {" ", "\n"}

\* Texts a textarea may hold: empty, blank, and written with padding.
Texts == {<<>>, <<" ">>, <<" ", "a", "\n">>}

\* Values a date input may hold: empty or a calendar date.
Dates == {"", "2024-01-05"}

InitialEntries ==
  << [id |-> 1, date |-> "", text |-> <<>>],
     [id |-> 2, date |-> "", text |-> <<>>] >>

RECURSIVE MaxOf(_)
MaxOf(S) ==
  IF S = {} THEN 0
  ELSE LET x == CHOOSE y \in S : TRUE
           m == MaxOf(S \ {x})
       IN IF x > m THEN x ELSE m

\* Date.now() is far above the literal ids 1 and 2 of the initial entries.
FirstNow == MaxOf({InitialEntries[i].id : i \in DOMAIN InitialEntries}) + 1

VALIDATION_MSG ==
  "Please add at least 2 journal entries with content to detect patterns."
PARSE_MSG == "Could not parse analysis. Please try again."
SYNTAX_MSG == "Unexpected token in JSON"
TYPE_MSG == "Cannot read properties of undefined (reading 'message')"

\* Messages of the errors the client rejects with.
TransportMessages == {"Connection error."}

SYSTEM_PROMPT == "You are an expert emotional intelligence analyst ..."
USER_PREFIX ==
  "Analyze these journal entries for emotional drift and pattern shifts:\n\n"
SEPARATOR == "\n\n---\n\n"

----------------------------------------------------------------------------
(* String helpers. *)

\* String.prototype.trim
RECURSIVE TrimLeft(_)
TrimLeft(s) ==
  IF s = <<>> THEN s
  ELSE IF Head(s) \in Whitespace THEN TrimLeft(Tail(s)) ELSE s

RECURSIVE TrimRight(_)
TrimRight(s) ==
  IF s = <<>> THEN s
  ELSE IF s[Len(s)] \in Whitespace THEN TrimRight(SubSeq(s, 1, Len(s) - 1))
       ELSE s

Trim(s) == TrimRight(TrimLeft(s))

Digits == <<"0", "1", "2", "3", "4", "5", "6", "7", "8", "9">>

\* Number to decimal string, as a template literal formats it.
RECURSIVE NumStr(_)
NumStr(n) ==
  IF n < 10 THEN <<Digits[n + 1]>>
  ELSE NumStr(n \div 10) \o <<Digits[(n % 10) + 1]>>

\* Array.prototype.join
RECURSIVE Join(_, _)
Join(parts, sep) ==
  IF parts = <<>> THEN <<>>
  ELSE IF Len(parts) = 1 THEN parts[1]
       ELSE parts[1] \o <<sep>> \o Join(Tail(parts), sep)

----------------------------------------------------------------------------
(* Request composition (analyze, first half). *)

NonBlankUnpadded(e) == e.text # <<>>
\* e.text.trim() is truthy
NonBlank(e) == Trim(e.text) # <<>>

\* entries.filter((e) => e.text.trim())
ValidUnpadded(es) == SelectSeq(es, NonBlankUnpadded)
Valid(es) == SelectSeq(es, NonBlank)

BlockOf(e, i) ==
  <<"Entry ">> \o NumStr(i)
    \o (IF e.date # "" THEN <<" [", e.date, "]">> ELSE <<>>)
    \o <<":\n">> \o Trim(e.text)

PayloadReversed(valid) ==
  Join([i \in 1..Len(valid) |->
          BlockOf(valid[Len(valid) + 1 - i], i)], SEPARATOR)
Payload(valid) ==
  Join([i \in 1..Len(valid) |-> BlockOf(valid[i], i)], SEPARATOR)

Request(valid) ==
  [model |-> "grok-2-latest",
   system |-> SYSTEM_PROMPT,
   user |-> <<USER_PREFIX>> \o Payload(valid)]

----------------------------------------------------------------------------
(* Response interpretation (analyze, lines 188-191). *)

NoMatch == [found |-> FALSE, span |-> <<>>]

OpenAt(s) == {i \in 1..Len(s) : s[i] = "{"}
CloseAt(s) == {j \in 1..Len(s) : s[j] = "}"}

MinOf(S) == CHOOSE x \in S : \A y \in S : x <= y

\* raw.match(/\{[\s\S]*\}/): the leftmost position a match can start at, and
\* from there the longest match.
RegexMatchLazy(s) ==
  LET starts == {i \in OpenAt(s) : \E j \in CloseAt(s) : j > i}
  IN IF starts = {} THEN NoMatch
     ELSE LET i == MinOf(starts)
              j == MinOf({k \in CloseAt(s) : k > i})
          IN [found |-> TRUE, span |-> SubSeq(s, i, j)]
RegexMatch(s) ==
  LET starts == {i \in OpenAt(s) : \E j \in CloseAt(s) : j > i}
  IN IF starts = {} THEN NoMatch
     ELSE LET i == MinOf(starts)
              j == MaxOf({k \in CloseAt(s) : k > i})
          IN [found |-> TRUE, span |-> SubSeq(s, i, j)]

\* A JSON string literal: the contents between double quotes, as one unit.
Quote(v) == "\"" \o v \o "\""

DriftInputs ==
  {"Stable", "Gradual Positive", "Gradual Negative", "Volatile",
   "V-Shape Recovery", "Inverted V-Shape", "Cyclical",
   "Unknown-Value", "stable", "", "constructor", "toString", "__proto__"}

WellbeingInputs ==
  {"Improving", "Stable", "Declining", "Concerning", "Mixed",
   "Unknown-Value", "improving", "", "constructor", "valueOf"}

StringContents ==
  {"a", "drift_type", "wellbeing_indicator"} \cup DriftInputs
    \cup WellbeingInputs

StringLits == {Quote(v) : v \in StringContents}
Unquote(lit) == CHOOSE v \in StringContents : Quote(v) = lit

ParseFail == [ok |-> FALSE, next |-> 0, value |-> NullAnalysis]

\* A later member with the same key replaces the value of the earlier one.
SetMember(members, k, v) ==
  IF \E i \in 1..Len(members) : members[i].key = k
  THEN [i \in 1..Len(members) |->
          IF members[i].key = k THEN [key |-> k, value |-> v]
          ELSE members[i]]
  ELSE Append(members, [key |-> k, value |-> v])

RECURSIVE NumberEnd(_, _)
NumberEnd(s, i) ==
  IF i <= Len(s) /\ s[i] = "1" THEN NumberEnd(s, i + 1) ELSE i

\* JSON.parse, for texts over { } : , 1 and string literals (no whitespace).
RECURSIVE ParseValue(_, _)
RECURSIVE ParseMembers(_, _, _)
ParseMembers(s, i, acc) ==
  IF i + 2 > Len(s) \/ s[i] \notin StringLits \/ s[i + 1] # ":"
  THEN ParseFail
  ELSE LET r == ParseValue(s, i + 2)
       IN IF ~r.ok \/ r.next > Len(s) THEN ParseFail
          ELSE LET ms == SetMember(acc, Unquote(s[i]), r.value)
               IN IF s[r.next] = ","
                  THEN ParseMembers(s, r.next + 1, ms)
                  ELSE IF s[r.next] = "}"
                       THEN [ok |-> TRUE, next |-> r.next + 1,
                             value |-> [type |-> "object", members |-> ms]]
                       ELSE ParseFail

ParseValue(s, i) ==
  IF i > Len(s) THEN ParseFail
  ELSE IF s[i] = "{"
       THEN IF i + 1 <= Len(s) /\ s[i + 1] = "}"
            THEN [ok |-> TRUE, next |-> i + 2,
                  value |-> [type |-> "object", members |-> <<>>]]
            ELSE ParseMembers(s, i + 1, <<>>)
       ELSE IF s[i] \in StringLits
            THEN [ok |-> TRUE, next |-> i + 1,
                  value |-> [type |-> "string", str |-> Unquote(s[i])]]
            ELSE IF s[i] = "1"
                 THEN [ok |-> TRUE, next |-> NumberEnd(s, i),
                       value |-> [type |-> "number",
                                  digits |-> SubSeq(s, i, NumberEnd(s, i) - 1)]]
                 ELSE ParseFail

JSONparse(s) ==
  LET r == ParseValue(s, 1)
  IN IF r.ok /\ r.next = Len(s) + 1 THEN r ELSE ParseFail

\* Lines 188-191: what the try block does with the completion's text.
InterpretNoThrow(r) ==
  LET m == RegexMatch(r)
      p == JSONparse(m.span)
  IN [match |-> m, threw |-> FALSE, message |-> NULL, value |-> p.value]
Interpret(r) ==
  LET m == RegexMatch(r)
  IN IF ~m.found
     THEN [match |-> m, threw |-> TRUE, message |-> PARSE_MSG,
           value |-> NullAnalysis]
     ELSE LET p == JSONparse(m.span)
          IN IF p.ok
             THEN [match |-> m, threw |-> FALSE, message |-> NULL,
                   value |-> p.value]
             ELSE [match |-> m, threw |-> TRUE, message |-> SYNTAX_MSG,
                   value |-> NullAnalysis]

\* A completion: its first choice's message text, or no choice at all.
TextResponse(r) == [kind |-> "text", content |-> r]
EmptyResponse == [kind |-> "empty", content |-> <<>>]

\* The try block from the point the awaited call resolves with res.
Outcome(res) ==
  IF res.kind = "empty"
  THEN [match |-> NoMatch, threw |-> TRUE, message |-> TYPE_MSG,
        value |-> NullAnalysis]
  ELSE Interpret(res.content)

----------------------------------------------------------------------------
(* The App component. *)

\* What the last handler was, and the completion it was handed (if any).
NoArg == [kind |-> "none", content |-> <<>>]
Ev(name) == [name |-> name, arg |-> NoArg]

Ids(es) == {es[i].id : i \in DOMAIN es}

Remove(s, i) == SubSeq(s, 1, i - 1) \o SubSeq(s, i + 1, Len(s))

AppInit ==
  /\ entries = InitialEntries
  /\ analysis = NullAnalysis
  /\ loading = FALSE
  /\ error = NULL
  /\ now = FirstNow
  /\ inflight = <<>>
  /\ event = Ev("init")

IdleInterp == raw = <<>> /\ match = [state |-> "idle"]
IdleChart == chartEntries = <<>> /\ chart = [state |-> "idle"]

Init == AppInit /\ IdleInterp /\ IdleChart

\* Time passes between two events.
Tick ==
  /\ now < FirstNow + MaxTicks
  /\ now' = now + 1
  /\ event' = Ev("tick")
  /\ UNCHANGED <<entries, analysis, loading, error, inflight>>
  /\ UNCHANGED <<interpVars, chartVars>>

\* addEntry, lines 150-151
AddEntry ==
  /\ Len(entries) < MaxEntries
  /\ entries' = Append(entries, [id |-> now, date |-> "", text |-> <<>>])
  /\ event' = Ev("add")
  /\ UNCHANGED <<analysis, loading, error, now, inflight>>
  /\ UNCHANGED <<interpVars, chartVars>>

\* updateEntry, lines 153-154
UpdateEntry(id, field, value) ==
  /\ entries' = [i \in DOMAIN entries |->
                   IF entries[i].id = id
                   THEN [entries[i] EXCEPT ![field] = value]
                   ELSE entries[i]]
  /\ event' = Ev("edit")
  /\ UNCHANGED <<analysis, loading, error, now, inflight>>
  /\ UNCHANGED <<interpVars, chartVars>>

KeepOthers(es, id) == SelectSeq(es, LAMBDA e : e.id # id)

\* removeEntry, lines 156-159 (the handler, whether or not line 236 shows
\* the button)
RemoveEntry(id) ==
  /\ entries' = IF Len(entries) <= 1 THEN entries ELSE KeepOthers(entries, id)
  /\ event' = Ev("remove")
  /\ UNCHANGED <<analysis, loading, error, now, inflight>>
  /\ UNCHANGED <<interpVars, chartVars>>

AnalyzeNeverDisabled == FALSE
\* btn-analyze, line 260: disabled={loading}
AnalyzeDisabled == loading

\* A click on the disabled button: no handler runs.
ClickDisabled ==
  /\ AnalyzeDisabled
  /\ event' = Ev("click_disabled")
  /\ UNCHANGED <<entries, analysis, loading, error, now, inflight>>
  /\ UNCHANGED <<interpVars, chartVars>>

\* analyze, lines 162-166: the validation return
AnalyzeInvalid ==
  /\ ~AnalyzeDisabled
  /\ Len(Valid(entries)) < 2
  /\ error' = VALIDATION_MSG
  /\ event' = Ev("invalid")
  /\ UNCHANGED <<entries, analysis, loading, now, inflight>>
  /\ UNCHANGED <<interpVars, chartVars>>

\* analyze, lines 162-186: up to the awaited call
AnalyzeIssue ==
  /\ ~AnalyzeDisabled
  /\ Len(Valid(entries)) >= 2
  /\ loading' = TRUE
  /\ error' = NULL
  /\ analysis' = NullAnalysis
  /\ inflight' = Append(inflight, Request(Valid(entries)))
  /\ event' = Ev("issue")
  /\ UNCHANGED <<entries, now>>
  /\ UNCHANGED <<interpVars, chartVars>>

ResolveNoFinally(i, res) ==
  /\ i \in DOMAIN inflight
  /\ LET o == Outcome(res)
     IN /\ analysis' = IF o.threw THEN analysis ELSE o.value
        /\ error' = IF o.threw THEN o.message ELSE error
        /\ loading' = IF o.threw THEN loading ELSE FALSE
  /\ inflight' = Remove(inflight, i)
  /\ event' = [name |-> "resolved", arg |-> res]
  /\ UNCHANGED <<entries, now>>
  /\ UNCHANGED <<interpVars, chartVars>>
\* analyze, lines 188-196: the call resolved
Resolve(i, res) ==
  /\ i \in DOMAIN inflight
  /\ LET o == Outcome(res)
     IN /\ analysis' = IF o.threw THEN analysis ELSE o.value
        /\ error' = IF o.threw THEN o.message ELSE error
  /\ loading' = FALSE
  /\ inflight' = Remove(inflight, i)
  /\ event' = [name |-> "resolved", arg |-> res]
  /\ UNCHANGED <<entries, now>>
  /\ UNCHANGED <<interpVars, chartVars>>

\* analyze, lines 192-196: the call rejected
Reject(i, msg) ==
  /\ i \in DOMAIN inflight
  /\ error' = msg
  /\ loading' = FALSE
  /\ inflight' = Remove(inflight, i)
  /\ event' = Ev("rejected")
  /\ UNCHANGED <<entries, analysis, now>>
  /\ UNCHANGED <<interpVars, chartVars>>

\* Completion texts the service may answer with.
Responses ==
  { TextResponse(<<"x", ":", " ", "{", Quote("a"), ":", "1", "}", " ", "x">>),
    TextResponse(<<"{", Quote("a"), ":", "}">>),
    TextResponse(<<"x">>),
    EmptyResponse }

Fields == {"date", "text"}
FieldValues(f) == IF f = "date" THEN Dates ELSE Texts

Edit == \E id \in Ids(entries), f \in Fields :
          \E v \in FieldValues(f) : UpdateEntry(id, f, v)
RemoveClick == \E id \in Ids(entries) : RemoveEntry(id)
Resolved == \E i \in DOMAIN inflight, res \in Responses : Resolve(i, res)
Rejected ==
  \E i \in DOMAIN inflight, msg \in TransportMessages : Reject(i, msg)

Next ==
  \/ Tick
  \/ AddEntry
  \/ Edit
  \/ RemoveClick
  \/ ClickDisabled
  \/ AnalyzeInvalid
  \/ AnalyzeIssue
  \/ Resolved
  \/ Rejected

Spec == Init /\ [][Next]_vars

----------------------------------------------------------------------------
(* The interpreter on its own: every response text up to MaxRaw long. *)

Alphabet == {"{", "}", Quote("a"), ":", "1", ",", "x"}
RawTexts == UNION {[1..n -> Alphabet] : n \in 0..MaxRaw}

InitExtract ==
  /\ AppInit
  /\ IdleChart
  /\ raw \in RawTexts
  /\ match = [state |-> "idle"]

\* Lines 188-191 applied to raw.
InterpretRaw ==
  /\ match.state = "idle"
  /\ match' = [state |-> "done", out |-> Interpret(raw)]
  /\ UNCHANGED <<raw, appVars, chartVars>>

NextExtract == InterpretRaw

SpecExtract == InitExtract /\ [][NextExtract]_vars

----------------------------------------------------------------------------
(* Presentation tables, lines 58-74 and 199-200. *)

UNDEFINED == "<undefined>"

\* The icons (arrows, warning sign, tilde) are spelled by name.
WELLBEING_META ==
  ("Improving" :> [color |-> "#22c55e", icon |-> "up"]) @@
  ("Stable" :> [color |-> "#60a5fa", icon |-> "right"]) @@
  ("Declining" :> [color |-> "#f87171", icon |-> "down"]) @@
  ("Concerning" :> [color |-> "#dc2626", icon |-> "warning"]) @@
  ("Mixed" :> [color |-> "#fb923c", icon |-> "~"])

DRIFT_META ==
  ("Stable" :> "#60a5fa") @@
  ("Gradual Positive" :> "#22c55e") @@
  ("Gradual Negative" :> "#f87171") @@
  ("Volatile" :> "#fb923c") @@
  ("V-Shape Recovery" :> "#a78bfa") @@
  ("Inverted V-Shape" :> "#f472b6") @@
  ("Cyclical" :> "#22d3ee")

\* Both tables are object literals: a lookup that finds no own property goes
\* on to Object.prototype, whose members are functions and objects.
ObjectPrototypeKeys ==
  {"constructor", "toString", "toLocaleString", "valueOf", "hasOwnProperty",
   "isPrototypeOf", "propertyIsEnumerable", "__proto__",
   "__defineGetter__", "__defineSetter__", "__lookupGetter__",
   "__lookupSetter__"}

INHERITED == "<member of Object.prototype>"

\* table[key]
Get(table, key, inherited) ==
  IF key \in DOMAIN table THEN [nullish |-> FALSE, value |-> table[key]]
  ELSE IF key \in ObjectPrototypeKeys
       THEN [nullish |-> FALSE, value |-> inherited]
       ELSE [nullish |-> TRUE, value |-> inherited]

\* analysis?.name
Member(a, name) ==
  IF a.type # "object" THEN [type |-> "undefined"]
  ELSE IF \E i \in DOMAIN a.members : a.members[i].key = name
       THEN a.members[CHOOSE i \in DOMAIN a.members :
                        a.members[i].key = name].value
       ELSE [type |-> "undefined"]

\* The property key a value converts to.
RECURSIVE Concat(_)
Concat(ds) == IF ds = <<>> THEN "" ELSE Head(ds) \o Concat(Tail(ds))

ToKey(v) ==
  IF v.type = "string" THEN v.str
  ELSE IF v.type = "number" THEN Concat(v.digits)
       ELSE IF v.type = "object" THEN "[object Object]"
            ELSE "undefined"

\* line 199
DriftColor ==
  LET got == Get(DRIFT_META, ToKey(Member(analysis, "drift_type")), INHERITED)
  IN IF got.nullish THEN "#a78bfa" ELSE got.value

\* line 200; an inherited member has neither a color nor an icon.
WbMeta ==
  LET got == Get(WELLBEING_META,
                 ToKey(Member(analysis, "wellbeing_indicator")),
                 [color |-> UNDEFINED, icon |-> UNDEFINED])
  IN IF got.nullish THEN [color |-> "#9ca3af", icon |-> "?"] ELSE got.value

\* Completions that follow the requested schema in these two fields, with
\* values inside and outside the enumerations, or without the field.
ABSENT == "<absent>"

FieldTokens(name, v) ==
  IF v = ABSENT THEN <<>> ELSE <<Quote(name), ":", Quote(v)>>

ModelOutput(d, w) ==
  LET a == FieldTokens("drift_type", d)
      b == FieldTokens("wellbeing_indicator", w)
  IN <<"{">> \o a \o (IF a # <<>> /\ b # <<>> THEN <<",">> ELSE <<>>) \o b
       \o <<"}">>

ModelOutputs ==
  {TextResponse(ModelOutput(d, w)) :
     d \in DriftInputs \cup {ABSENT}, w \in WellbeingInputs \cup {ABSENT}}

Received == \E i \in DOMAIN inflight, res \in ModelOutputs : Resolve(i, res)

NextRender ==
  \/ Edit
  \/ AnalyzeIssue
  \/ Received

SpecRender == Init /\ [][NextRender]_vars

----------------------------------------------------------------------------
(* EmotionChart, lines 78-137, and SCORE_COLOR, lines 49-56. *)

ScoreMin == -10
ScoreMax == 10
Scores == ScoreMin..ScoreMax

SCORE_COLOR_STRICT(score) ==
  IF score > 7 THEN "#22c55e"
  ELSE IF score > 4 THEN "#86efac"
  ELSE IF score > 1 THEN "#fde68a"
  ELSE IF score > -2 THEN "#fb923c"
  ELSE IF score > -6 THEN "#f87171"
  ELSE "#dc2626"
SCORE_COLOR(score) ==
  IF score >= 7 THEN "#22c55e"
  ELSE IF score >= 4 THEN "#86efac"
  ELSE IF score >= 1 THEN "#fde68a"
  ELSE IF score >= -2 THEN "#fb923c"
  ELSE IF score >= -6 THEN "#f87171"
  ELSE "#dc2626"

W == 560
H == 160
PAD == [top |-> 16, right |-> 20, bottom |-> 28, left |-> 38]
cW == W - PAD.left - PAD.right
cH == H - PAD.top - PAD.bottom

\* toX(i) = PAD.left + (i / (n - 1)) * cW, as a fraction over n - 1
toX(i, n) == [num |-> PAD.left * (n - 1) + i * cW, den |-> n - 1]

\* toY(s) = PAD.top + ((10 - s) / 20) * cH, as a fraction over 20
toYUpright(s) == [num |-> PAD.top * 20 + (s + 10) * cH, den |-> 20]
toY(s) == [num |-> PAD.top * 20 + (10 - s) * cH, den |-> 20]

GridScores == <<-10, -5, 0, 5, 10>>

EmotionChart(es) ==
  IF Len(es) < 2 THEN [state |-> "null"]
  ELSE LET n == Len(es)
           zeroY == toY(0)
           linePts == [i \in 1..n |-> [x |-> toX(i - 1, n), y |-> toY(es[i])]]
           areaPts == <<[x |-> toX(0, n), y |-> zeroY]>> \o linePts
                        \o <<[x |-> toX(n - 1, n), y |-> zeroY]>>
       IN [state |-> "drawn",
           zeroY |-> zeroY,
           grid |-> [g \in DOMAIN GridScores |->
                       [y |-> toY(GridScores[g]),
                        solid |-> GridScores[g] = 0]],
           polygon |-> areaPts,
           polyline |-> linePts,
           circles |-> [i \in 1..n |->
                          [cx |-> toX(i - 1, n), cy |-> toY(es[i]),
                           fill |-> SCORE_COLOR(es[i]), label |-> i]]]

ScoreLists == UNION {[1..n -> Scores] : n \in 0..MaxPoints}

InitChart ==
  /\ AppInit
  /\ IdleInterp
  /\ chartEntries \in ScoreLists
  /\ chart = [state |-> "idle"]

Render ==
  /\ chart.state = "idle"
  /\ chart' = EmotionChart(chartEntries)
  /\ UNCHANGED <<chartEntries, appVars, interpVars>>

NextChart == Render

SpecChart == InitChart /\ [][NextChart]_vars

----------------------------------------------------------------------------
(* Vocabulary of the properties, stated without the handlers' operators. *)

HasInk(t) == \E k \in DOMAIN t : t[k] \notin Whitespace

\* The positions of the entries whose text is non-blank after trimming.
InkAt(es) == {i \in DOMAIN es : HasInk(es[i].text)}
NonBlankCount(es) == Cardinality(InkAt(es))

\* The j-th smallest member of a set of positions.
Nth(S, j) == CHOOSE i \in S : Cardinality({m \in S : m <= i}) = j

\* A text without the whitespace before its first and after its last ink.
Stripped(t) ==
  LET ink == {k \in DOMAIN t : t[k] \notin Whitespace}
  IN IF ink = {} THEN <<>> ELSE SubSeq(t, MinOf(ink), MaxOf(ink))

\* The pieces of a payload between its separators.
RECURSIVE SplitOn(_, _)
SplitOn(s, sep) ==
  IF \A k \in DOMAIN s : s[k] # sep THEN <<s>>
  ELSE LET k == MinOf({m \in DOMAIN s : s[m] = sep})
       IN <<SubSeq(s, 1, k - 1)>> \o SplitOn(SubSeq(s, k + 1, Len(s)), sep)

\* A block numbered j for entry e: header, optional date, trimmed text.
IsBlockFor(b, j, e) ==
  LET dated == e.date # ""
      skip == IF dated THEN 5 ELSE 2
  IN /\ Len(b) > skip
     /\ b[1] = "Entry "
     /\ b[2] = Digits[j + 1]
     /\ dated => (b[3] = " [" /\ b[4] = e.date /\ b[5] = "]")
     /\ b[skip + 1] = ":\n"
     /\ SubSeq(b, skip + 2, Len(b)) = Stripped(e.text)
     /\ \A k \in DOMAIN b : (k > 2 /\ ~dated) => b[k] \notin {" [", "]"}

\* The user message carries exactly the blocks of the non-blank entries of es.
CarriesBlocks(req, es) ==
  LET k == NonBlankCount(es)
      parts == SplitOn(Tail(req.user), SEPARATOR)
  IN /\ Head(req.user) = USER_PREFIX
     /\ Len(parts) = k
     /\ \A j \in 1..k : IsBlockFor(parts[j], j, es[Nth(InkAt(es), j)])

Triggered(e) == e.name \in {"invalid", "issue"}
Settled(e) == e.name \in {"resolved", "rejected"}

NoSpan(r) ==
  ~ \E i, j \in DOMAIN r : i < j /\ r[i] = "{" /\ r[j] = "}"

\* The text is prose (no brace) around the malformed object {"a":}.
HoldsMalformed(r) ==
  \E i \in DOMAIN r :
    /\ i + 3 <= Len(r)
    /\ SubSeq(r, i, i + 3) = <<"{", Quote("a"), ":", "}">>
    /\ \A k \in DOMAIN r : (k < i \/ k > i + 3) => r[k] \notin {"{", "}"}

----------------------------------------------------------------------------
(* C1: at most one analysis request is ever in flight; a click on the      *)
(* trigger while a request is pending issues no second request, because    *)
(* the control is disabled for as long as loading is true.                 *)
C1_AtMostOneInFlight ==
  /\ Len(inflight) <= 1
  /\ event.name = "click_disabled" => (loading /\ Len(inflight) = 1)
  /\ event.name = "issue" => Len(inflight) = 1

C1_Witness ==
  event.name = "click_disabled" /\ loading /\ Len(inflight) = 1

(* C2: a trigger with fewer than 2 entries that are non-blank after        *)
(* trimming sets the validation message and makes no outbound call.        *)
C2_ValidationError ==
  [][(Triggered(event') /\ NonBlankCount(entries) < 2)
       => /\ error' = VALIDATION_MSG
          /\ event'.name = "invalid"
          /\ inflight' = inflight
          /\ loading' = loading]_vars

C2_Witness ==
  /\ event.name = "invalid"
  /\ error = VALIDATION_MSG
  /\ inflight = <<>>
  /\ Len(entries) = 2
  /\ NonBlankCount(entries) = 1
  /\ \E i \in DOMAIN entries : entries[i].text = <<" ">>

(* C3: the entry list never becomes empty under add, edit and remove, and  *)
(* a remove on a list of exactly one entry leaves the list unchanged.      *)
C3_NeverEmpty ==
  [][/\ Len(entries') >= 1
     /\ (event'.name = "remove" /\ Len(entries) = 1) => entries' = entries]_vars

(* C4: no two entries of the list share an id, whatever the timing of the  *)
(* adds.                                                                   *)
C4_UniqueIds ==
  \A i, j \in DOMAIN entries : i # j => entries[i].id # entries[j].id

(* C5: when an issued request fails (the call rejects, the response holds  *)
(* no JSON object span, or the span is malformed JSON such as {"a":}), an  *)
(* error message is set, analysis stays null and the trigger is usable     *)
(* again.                                                                  *)
C5_FailureIsCaught ==
  LET failed ==
        \/ event.name = "rejected"
        \/ /\ event.name = "resolved"
           /\ event.arg.kind = "text"
           /\ NoSpan(event.arg.content) \/ HoldsMalformed(event.arg.content)
  IN /\ failed => /\ error \notin {NULL, ""}
                  /\ analysis = NullAnalysis
                  /\ ~loading
                  /\ ~AnalyzeDisabled
     /\ (event.name = "resolved" /\ event.arg.kind = "text"
           /\ NoSpan(event.arg.content)) => error = PARSE_MSG
     /\ Settled(event) => (error = NULL) # (analysis = NullAnalysis)

C5_Witness ==
  /\ event.name = "resolved"
  /\ HoldsMalformed(event.arg.content)
  /\ error # NULL
  /\ analysis = NullAnalysis
  /\ ~loading

(* C6: a trigger with k >= 2 non-blank entries issues exactly one outbound *)
(* call, whose payload holds exactly k blocks numbered 1..k with the       *)
(* trimmed texts of the non-blank entries in list order, the date in the   *)
(* header only when present; a settled call is not retried.                *)
C6_OneCallWithBlocks ==
  [][/\ (Triggered(event') /\ NonBlankCount(entries) >= 2)
          => /\ Len(inflight') = Len(inflight) + 1
             /\ SubSeq(inflight', 1, Len(inflight)) = inflight
             /\ CarriesBlocks(inflight'[Len(inflight')], entries)
     /\ Settled(event') => Len(inflight') = Len(inflight) - 1
     /\ ~(Triggered(event') \/ Settled(event')) => inflight' = inflight]_vars

C6_Witness ==
  /\ event.name = "issue"
  /\ Len(entries) = 3
  /\ InkAt(entries) = {2, 3}
  /\ entries[2].date = "" /\ entries[3].date # ""
  /\ Len(inflight) = 1
  /\ inflight[1].user =
       <<USER_PREFIX, "Entry ", "1", ":\n", "a", SEPARATOR,
         "Entry ", "2", " [", "2024-01-05", "]", ":\n", "a">>

Braces == {"{", "}"}

(* C7: extraction takes the span from the first "{" to the last "}" of    *)
(* the raw text, whether or not that span is balanced; with prose around   *)
(* one JSON object the span is exactly that object; with no "{" followed   *)
(* by a "}" extraction fails with the parse message.                       *)
C7_FirstToLast ==
  match.state = "done" =>
    LET out == match.out
        opens == {i \in DOMAIN raw : raw[i] = "{"}
        closes == {j \in DOMAIN raw : raw[j] = "}"}
    IN IF NoSpan(raw)
       THEN /\ ~out.match.found
            /\ out.threw
            /\ out.message = PARSE_MSG
            /\ out.value = NullAnalysis
       ELSE /\ out.match.found
            /\ out.match.span = SubSeq(raw, MinOf(opens), MaxOf(closes))
            /\ \A a, b \in DOMAIN raw :
                 ( /\ a < b /\ raw[a] = "{" /\ raw[b] = "}"
                   /\ \A k \in DOMAIN raw :
                        (k < a \/ k > b) => raw[k] \notin Braces )
                 => out.match.span = SubSeq(raw, a, b)

C7_Witness ==
  /\ match.state = "done"
  /\ raw = <<"x", "{", Quote("a"), ":", "1", "}">>
  /\ match.out.match.span = <<"{", Quote("a"), ":", "1", "}">>
  /\ ~match.out.threw

\* Nesting depth of s after its first k characters.
RECURSIVE Depth(_, _)
Depth(s, k) ==
  IF k = 0 THEN 0
  ELSE Depth(s, k - 1)
         + (IF s[k] = "{" THEN 1 ELSE IF s[k] = "}" THEN -1 ELSE 0)

\* s[i..j] opens at i and first returns to depth zero at j.
BalancedSpan(s, i, j) ==
  /\ i < j /\ s[i] = "{" /\ s[j] = "}"
  /\ Depth(s, j) = Depth(s, i - 1)
  /\ \A k \in i..(j - 1) : Depth(s, k) > Depth(s, i - 1)

(* C7 as first stated: the span located is the first balanced {...} span   *)
(* of the raw text.                                                        *)
C7_FirstBalanced ==
  match.state = "done" =>
    \A i, j \in DOMAIN raw :
      ( /\ BalancedSpan(raw, i, j)
        /\ \A a, b \in DOMAIN raw : BalancedSpan(raw, a, b) => i <= a )
      => (match.out.match.found /\ match.out.match.span = SubSeq(raw, i, j))

DriftTypes ==
  {"Stable", "Gradual Positive", "Gradual Negative", "Volatile",
   "V-Shape Recovery", "Inverted V-Shape", "Cyclical"}
WellbeingValues == {"Improving", "Stable", "Declining", "Concerning", "Mixed"}

Unrecognized(field, table) ==
  \/ field.type = "undefined"
  \/ field.type = "string" /\ field.str \notin table

(* C8: a drift_type outside the 7-entry table (or absent) resolves to the  *)
(* accent color #a78bfa, and a wellbeing_indicator outside the 5-entry     *)
(* table (or absent) resolves to {color #9ca3af, icon ?}.                  *)
C8_FallbackForUnrecognized ==
  /\ Unrecognized(Member(analysis, "drift_type"), DriftTypes)
       => DriftColor = "#a78bfa"
  /\ Unrecognized(Member(analysis, "wellbeing_indicator"), WellbeingValues)
       => WbMeta = [color |-> "#9ca3af", icon |-> "?"]

Thresholds == {7, 4, 1, -2, -6}
Ramp == <<"#dc2626", "#f87171", "#fb923c", "#fde68a", "#86efac", "#22c55e">>
Bucket(color) == CHOOSE b \in DOMAIN Ramp : Ramp[b] = color

(* C9: over the integer scores -10..10 SCORE_COLOR is total and monotonic  *)
(* in the thresholds >=7, >=4, >=1, >=-2, >=-6: 7..10 take the top bucket, *)
(* -10..-7 the bottom one, and a higher score never a lower bucket.        *)
C9_ScoreBuckets ==
  chart.state = "drawn" =>
    /\ Len(chart.circles) = Len(chartEntries)
    /\ \A i \in DOMAIN chartEntries :
         LET s == chartEntries[i]
             fill == chart.circles[i].fill
         IN /\ \E b \in DOMAIN Ramp : Ramp[b] = fill
            /\ Bucket(fill) = 1 + Cardinality({t \in Thresholds : s >= t})
            /\ s >= 7 => fill = Ramp[6]
            /\ s <= -7 => fill = Ramp[1]
    /\ \A i, j \in DOMAIN chartEntries :
         chartEntries[i] >= chartEntries[j]
           => Bucket(chart.circles[i].fill) >= Bucket(chart.circles[j].fill)

C9_Witness ==
  /\ chart.state = "drawn"
  /\ chartEntries = <<7, 10, -10>>
  /\ chart.circles[1].fill = "#22c55e"
  /\ chart.circles[2].fill = "#22c55e"
  /\ chart.circles[3].fill = "#dc2626"

Less(p, q) == p.num * q.den < q.num * p.den
Same(p, q) == p.num * q.den = q.num * p.den
Whole(k) == [num |-> k, den |-> 1]

(* C10: the vertical projection is linear and inverted over -10..10: a     *)
(* higher score gets a strictly smaller y, equal scores get equal y, y is  *)
(* the zero line's only for score 0, positive scores lie above the zero    *)
(* line and negative ones below it.                                        *)
C10_VerticalProjection ==
  chart.state = "drawn" =>
    LET y(i) == chart.polyline[i].y
        s(i) == chartEntries[i]
        pts == DOMAIN chartEntries
    IN /\ DOMAIN chart.polyline = pts
       /\ \A i \in pts : chart.circles[i].cy = y(i)
       /\ \A i, j \in pts :
            /\ s(i) > s(j) => Less(y(i), y(j))
            /\ s(i) = s(j) => Same(y(i), y(j))
       /\ \A i \in pts :
            /\ Same(y(i), chart.zeroY) <=> s(i) = 0
            /\ s(i) > 0 => Less(y(i), chart.zeroY)
            /\ s(i) < 0 => Less(chart.zeroY, y(i))
            /\ s(i) = 10 => Same(y(i), Whole(PAD.top))
            /\ s(i) = -10 => Same(y(i), Whole(H - PAD.bottom))
       /\ \A i, j, k \in pts :
            s(i) + s(k) = 2 * s(j)
              => y(i).num * y(j).den * y(k).den + y(k).num * y(i).den * y(j).den
                   = 2 * y(j).num * y(i).den * y(k).den

C10_Witness ==
  /\ chart.state = "drawn"
  /\ chartEntries = <<5, -3, 8>>
  /\ Less(chart.polyline[1].y, chart.zeroY)
  /\ Less(chart.zeroY, chart.polyline[2].y)
  /\ Less(chart.polyline[3].y, chart.zeroY)

(* C11: loading is true exactly while an issued request has not settled:  *)
(* it is set when the request is issued, cleared when the request settles  *)
(* by success, transport failure or parse failure, and a trigger that      *)
(* fails validation never sets it.                                         *)
C11_LoadingTracksPending ==
  /\ loading <=> Len(inflight) > 0
  /\ event.name = "issue" => loading
  /\ Settled(event) => ~loading
  /\ event.name = "invalid" => ~loading

C11_Witness ==
  /\ event.name = "resolved"
  /\ NoSpan(event.arg.content)
  /\ error = PARSE_MSG
  /\ ~loading
  /\ inflight = <<>>

====
